---- MODULE Spec2Model ----
(***************************************************************************)
(* Model of the MIMIC-IV FHIR server and client:                           *)
(*   - the timeline-reconstruction engine of the client                    *)
(*     (FhirClient._process_timeline and the event extractor it calls);    *)
(*   - the in-memory resource store of the server (MimicFhirServer): its   *)
(*     filtered load and its read operations;                              *)
(*   - the lazy construction of the process-wide server instance.          *)
(*                                                                         *)
(* Python strings are sequences of code points, so that comparison is the  *)
(* lexicographic comparison Python performs and split('/') / substring     *)
(* tests are computed, not assumed.  Python dicts are functions whose      *)
(* DOMAIN is the set of keys present; lists are sequences.  resourceType   *)
(* and category, which the code only tests for equality, are TLA+ strings. *)
(***************************************************************************)
EXTENDS Integers, Sequences, FiniteSets, TLC

\* one build of the timeline: the arguments and locals of _process_timeline
VARIABLES bundle, patient_id, pc, encounters, encounter_order, non_encounter_events,
          patient_demographics, timeline

\* a second build of the same bundle, and a build running beside the first
VARIABLES run, first_timeline, other

\* the server: the mapping, the lines to load and how many are read, the
\* store, the last reply
VARIABLES valid_patient_uuids, input, cursor, resources, phase, response

\* the process-wide server instance and the threads asking for it
VARIABLES fhir_server, server_config, tpc, made, obtained, constructed

build_vars == <<bundle, patient_id, pc, encounters, encounter_order, non_encounter_events,
                patient_demographics, timeline>>

rebuild_vars == <<run, first_timeline, other>>

server_vars == <<valid_patient_uuids, input, cursor, resources, phase, response>>

instance_vars == <<fhir_server, server_config, tpc, made, obtained, constructed>>

vars == <<build_vars, rebuild_vars, server_vars, instance_vars>>

----------------------------------------------------------------------------
(* Bounds *)

\* longest bundle of the ordering universe
MaxLen == 3

----------------------------------------------------------------------------
(* Python values *)

\* Python None where a string is expected: no string holds code point 0
None == <<0>>

\* the empty dict {}
EmptyDict == [k \in {} |-> k]

\* the absent event (None returned by the extractor / initial demographics)
NoneEvent == [none |-> TRUE]

\* the timeline before the build has returned
NoTimeline == [none |-> TRUE]

\* truthiness of an optional string: None and '' are falsy
Truthy(s) == s # None /\ s # <<>>

\* d.get(k, default)
Get(d, k, default) == IF k \in DOMAIN d THEN d[k] ELSE default

\* Python str < str : lexicographic by code point
LexLess(a, b) ==
    \E k \in 1..Len(b) :
        /\ \A j \in 1..(k-1) : j <= Len(a) /\ a[j] = b[j]
        /\ (k > Len(a) \/ a[k] < b[k])

\* Python str <= str
LexLE(a, b) == a = b \/ LexLess(a, b)

\* sub in s
Contains(sub, s) ==
    \E i \in 1..(Len(s) - Len(sub) + 1) : SubSeq(s, i, i + Len(sub) - 1) = sub

\* ref.split('/')[-1] if '/' in ref else ref
LastSegment(ref) ==
    LET slashes == {i \in 1..Len(ref) : ref[i] = 47}
    IN  IF slashes = {} THEN ref
        ELSE LET last == CHOOSE i \in slashes : \A j \in slashes : j <= i
             IN  SubSeq(ref, last + 1, Len(ref))

----------------------------------------------------------------------------
(* String literals *)

StrEncounterSlash == <<69, 110, 99, 111, 117, 110, 116, 101, 114, 47>>
StrPatientSlash == <<80, 97, 116, 105, 101, 110, 116, 47>>
StrNone == <<110, 111, 110, 101>>
StrUnknown == <<85, 110, 107, 110, 111, 119, 110>>

\* "2021-01-01", "2021-01-01T10:00:00Z", "2021-01-02"
DA == <<50, 48, 50, 49, 45, 48, 49, 45, 48, 49>>
DB == <<50, 48, 50, 49, 45, 48, 49, 45, 48, 49, 84, 49, 48, 58, 48, 48, 58, 48, 48, 90>>
DC == <<50, 48, 50, 49, 45, 48, 49, 45, 48, 50>>

E1 == <<69, 49>>
E2 == <<69, 50>>
E9 == <<69, 57>>
P1 == <<80, 49>>

----------------------------------------------------------------------------
(* Reference Resolver *)

\* the resolver without the context.reference shape
ResolveEncounterRefNoContextReference(r) ==
    IF "encounter" \in DOMAIN r
    THEN LastSegment(Get(r.encounter, "reference", <<>>))
    ELSE IF "context" \in DOMAIN r /\ "encounter" \in DOMAIN r.context
            /\ r.context.encounter # <<>>
    THEN LastSegment(Get(r.context.encounter[1], "reference", <<>>))
    ELSE None

\* the encounter reference of a resource, or None
ResolveEncounterRef(r) ==
    IF "encounter" \in DOMAIN r
    THEN LastSegment(Get(r.encounter, "reference", <<>>))
    ELSE IF "context" \in DOMAIN r
    THEN LET context == r.context
         IN  IF "encounter" \in DOMAIN context
             THEN IF context.encounter # <<>>
                  THEN LastSegment(Get(context.encounter[1], "reference", <<>>))
                  ELSE None
             ELSE IF "reference" \in DOMAIN context
             THEN IF Contains(StrEncounterSlash, context.reference)
                  THEN LastSegment(context.reference)
                  ELSE None
             ELSE None
    ELSE None

----------------------------------------------------------------------------
(* Event Extractor *)

\* the priority list of timestamp fields of the generic fallback
TimestampFields ==
    << <<"effectiveDateTime">>, <<"effectiveInstant">>,
       <<"performedDateTime">>,
       <<"authoredOn">>, <<"issued">>, <<"date">>,
       <<"recordedDate">>, <<"recorded">>,
       <<"onsetDateTime">>, <<"abatementDateTime">>,
       <<"occurrenceDateTime">>,
       <<"dateAsserted">>, <<"assertedDate">>,
       <<"whenHandedOver">>, <<"whenPrepared">>,
       <<"created">>, <<"birthDate">>, <<"deceasedDateTime">>,
       <<"effectivePeriod", "start">>,
       <<"performedPeriod", "start">>,
       <<"period", "start">>,
       <<"onsetPeriod", "start">>,
       <<"abatementPeriod", "start">>,
       <<"occurrencePeriod", "start">>,
       <<"collection", "collectedDateTime">>,
       <<"collection", "collectedPeriod", "start">> >>

\* the value one entry of the priority list reads from the resource
FieldValue(r, field) ==
    IF Len(field) = 1 THEN Get(r, field[1], None)
    ELSE IF field[1] \notin DOMAIN r THEN None
    ELSE IF Len(field) = 2 THEN Get(r[field[1]], field[2], None)
    ELSE IF field[2] \notin DOMAIN r[field[1]] THEN None
    ELSE Get(r[field[1]][field[2]], field[3], None)

\* the priority list read from its end: the last non-empty value, else None
ExtractTimestampLastHit(r) ==
    LET hits == {i \in 1..Len(TimestampFields) :
                    Truthy(FieldValue(r, TimestampFields[i]))}
    IN  IF hits = {} THEN None
        ELSE FieldValue(r, TimestampFields[CHOOSE i \in hits : \A j \in hits : j <= i])

\* _extract_timestamp_from_resource: the first non-empty value, else None
ExtractTimestamp(r) ==
    LET hits == {i \in 1..Len(TimestampFields) :
                    Truthy(FieldValue(r, TimestampFields[i]))}
    IN  IF hits = {} THEN None
        ELSE FieldValue(r, TimestampFields[CHOOSE i \in hits : \A j \in hits : i <= j])

\* a or b
PyOr(a, b) == IF Truthy(a) THEN a ELSE b

\* the primary date of a resource, by type
EventDate(r) ==
    CASE r.resourceType = "Patient" -> Get(r, "birthDate", None)
      [] r.resourceType = "Condition" ->
            PyOr(Get(r, "onsetDateTime", None), Get(r, "recordedDate", None))
      [] r.resourceType = "Procedure" -> Get(r, "performedDateTime", None)
      [] r.resourceType = "DocumentReference" -> Get(r, "date", None)
      [] r.resourceType = "Observation" -> Get(r, "effectiveDateTime", None)
      [] r.resourceType = "MedicationRequest" -> Get(r, "authoredOn", None)
      [] OTHER -> ExtractTimestamp(r)

\* str.lower() of the generic resource types
Lower(t) ==
    CASE t = "Specimen" -> "specimen"
      [] t = "MedicationDispense" -> "medicationdispense"
      [] OTHER -> t

\* the category of a resource, by type
EventCategory(r) ==
    CASE r.resourceType = "Patient" -> "demographics"
      [] r.resourceType = "Condition" -> "condition"
      [] r.resourceType = "Procedure" -> "procedure"
      [] r.resourceType = "DocumentReference" -> "document"
      [] r.resourceType = "Observation" -> "observation"
      [] r.resourceType = "MedicationRequest" -> "medication"
      [] OTHER -> Lower(r.resourceType)

\* d.get('coding', [{}])[0] raises IndexError on an empty coding list
FirstCodingRaises(d) == Get(d, "coding", <<EmptyDict>>) = <<>>

\* the detail extraction of a resource raises (details themselves are not
\* modelled: no pass reads them)
ExtractRaises(r) ==
    CASE r.resourceType \in {"Condition", "Procedure", "Observation"} ->
            FirstCodingRaises(Get(r, "code", EmptyDict))
      [] r.resourceType = "DocumentReference" ->
            FirstCodingRaises(Get(r, "type", EmptyDict))
      [] r.resourceType = "MedicationRequest" ->
            /\ Get(r, "medicationCodeableConcept", EmptyDict) # EmptyDict
            /\ FirstCodingRaises(r.medicationCodeableConcept)
      [] OTHER -> FALSE

\* has_encounter_ref
HasEncounterRef(r) == "encounter" \in DOMAIN r \/ "context" \in DOMAIN r

\* events only for resources with a date
ShouldCreateEventDatedOnly(r) == Truthy(EventDate(r))

\* the rule that decides whether an event is created
ShouldCreateEvent(r) ==
    Truthy(EventDate(r)) \/ (HasEncounterRef(r) /\ EventCategory(r) # "")

\* _create_event_from_resource without the branch that returns None for an
\* Encounter: the resource falls to the generic branch like any other type
CreateEventEncounterAsGeneric(r, src) ==
    IF ShouldCreateEvent(r)
    THEN [date |-> EventDate(r),
          undated |-> ~Truthy(EventDate(r)),
          type |-> r.resourceType,
          category |-> EventCategory(r),
          resource_id |-> Get(r, "id", None),
          src |-> src]
    ELSE NoneEvent

\* _create_event_from_resource; src is the position of the entry in the
\* bundle and stands for the identity of the event object
CreateEvent(r, src) ==
    IF r.resourceType = "Encounter" THEN NoneEvent
    ELSE IF ShouldCreateEvent(r)
    THEN [date |-> EventDate(r),
          undated |-> ~Truthy(EventDate(r)),
          type |-> r.resourceType,
          category |-> EventCategory(r),
          resource_id |-> Get(r, "id", None),
          src |-> src]
    ELSE NoneEvent

----------------------------------------------------------------------------
(* Timeline Builder, pass 1: encounter discovery *)

\* the 'type' label of an encounter raises IndexError on an empty type list
\* or an empty coding list
EncounterTypeRaises(r) ==
    LET types == Get(r, "type", <<EmptyDict>>)
    IN  types = <<>> \/ FirstCodingRaises(types[1])

\* resource.get('type', [{}])[0].get('coding', [{}])[0].get('display', '')
EncounterTypeLabel(r) ==
    Get(Get(Get(r, "type", <<EmptyDict>>)[1], "coding", <<EmptyDict>>)[1],
        "display", <<>>)

\* the summary shell of one Encounter resource
EncounterShell(r) ==
    LET period == Get(r, "period", EmptyDict)
    IN  [id |-> Get(r, "id", None),
         start |-> Get(period, "start", None),
         end |-> Get(period, "end", None),
         class |-> Get(Get(r, "class", EmptyDict), "display", StrUnknown),
         type |-> EncounterTypeLabel(r),
         events |-> <<>>]

\* encounters[id] = shell, on a dict kept as the sequence of its values in
\* insertion order: an existing key keeps its position
DictPut(encs, shell) ==
    IF \E j \in 1..Len(encs) : encs[j].id = shell.id
    THEN [j \in 1..Len(encs) |-> IF encs[j].id = shell.id THEN shell ELSE encs[j]]
    ELSE Append(encs, shell)

\* id in encounters
KnownEncounter(encs, id) == \E j \in 1..Len(encs) : encs[j].id = id

\* the position of encounters[id] in insertion order
EncounterIndex(encs, id) == CHOOSE j \in 1..Len(encs) : encs[j].id = id

\* the first loop: st = [encounters, encounter_order] after entries i..
RECURSIVE DiscoverEncounters(_, _, _)
DiscoverEncounters(b, i, st) ==
    IF i > Len(b) THEN st
    ELSE IF b[i].resourceType = "Encounter"
    THEN DiscoverEncounters(b, i + 1,
            [encounters |-> DictPut(st.encounters, EncounterShell(b[i])),
             encounter_order |-> Append(st.encounter_order, Get(b[i], "id", None))])
    ELSE DiscoverEncounters(b, i + 1, st)

\* the sort key of an encounter id: encounters[eid]['start'] or ''
StartKey(encs, eid) ==
    LET start == encs[EncounterIndex(encs, eid)].start
    IN  IF Truthy(start) THEN start ELSE <<>>

\* one insertion of a stable sort by start key
InsertByStart(encs, sorted, eid) ==
    LET later == {j \in 1..Len(sorted) :
                     LexLess(StartKey(encs, eid), StartKey(encs, sorted[j]))}
        at == IF later = {} THEN Len(sorted) + 1
              ELSE CHOOSE j \in later : \A k \in later : j <= k
    IN  SubSeq(sorted, 1, at - 1) \o <<eid>> \o SubSeq(sorted, at, Len(sorted))

RECURSIVE StableSortByStart(_, _, _)
StableSortByStart(encs, order, sorted) ==
    IF order = <<>> THEN sorted
    ELSE StableSortByStart(encs, Tail(order), InsertByStart(encs, sorted, Head(order)))

\* the encounters left in discovery order
SortEncounterOrderOmitted(encs, order) == order

\* encounter_order.sort(key=lambda eid: encounters[eid]['start'] or '')
SortEncounterOrder(encs, order) == StableSortByStart(encs, order, <<>>)

----------------------------------------------------------------------------
(* Timeline Builder, pass 2: direct attribution *)

\* an append that ignores which encounter was named: encounters[first]['events']
AppendToFirstEncounter(encs, j, event) ==
    [encs EXCEPT ![1].events = Append(@, event)]

\* encounters[id]['events'].append(event)
AppendToEncounter(encs, j, event) ==
    [encs EXCEPT ![j].events = Append(@, event)]

\* the second loop without direct attribution: every event is left pending
AttributeEntryAllPending(st, r, i) ==
    LET encounter_ref == ResolveEncounterRef(r)
        created == CreateEvent(r, i)
        event == created @@ ("encounter_referenced" :>
                    IF Truthy(encounter_ref) THEN encounter_ref ELSE StrNone)
    IN  IF created = NoneEvent THEN st
        ELSE IF r.resourceType = "Patient"
        THEN [st EXCEPT !.patient_demographics = event]
        ELSE [st EXCEPT !.non_encounter_events = Append(@, event)]

\* the body of the second loop with a demographics slot that keeps the first
\* Patient event it was given
AttributeEntryFirstPatient(st, r, i) ==
    LET encounter_ref == ResolveEncounterRef(r)
        created == CreateEvent(r, i)
        event == created @@ ("encounter_referenced" :>
                    IF Truthy(encounter_ref) THEN encounter_ref ELSE StrNone)
    IN  IF created = NoneEvent THEN st
        ELSE IF r.resourceType = "Patient"
        THEN IF st.patient_demographics = NoneEvent
             THEN [st EXCEPT !.patient_demographics = event]
             ELSE st
        ELSE IF Truthy(encounter_ref) /\ KnownEncounter(st.encounters, encounter_ref)
        THEN [st EXCEPT !.encounters =
                AppendToEncounter(@, EncounterIndex(@, encounter_ref), event)]
        ELSE [st EXCEPT !.non_encounter_events = Append(@, event)]

\* the body of the second loop for entry i; st = [encounters,
\* non_encounter_events, patient_demographics]
AttributeEntry(st, r, i) ==
    LET encounter_ref == ResolveEncounterRef(r)
        created == CreateEvent(r, i)
        event == created @@ ("encounter_referenced" :>
                    IF Truthy(encounter_ref) THEN encounter_ref ELSE StrNone)
    IN  IF created = NoneEvent THEN st
        ELSE IF r.resourceType = "Patient"
        THEN [st EXCEPT !.patient_demographics = event]
        ELSE IF Truthy(encounter_ref) /\ KnownEncounter(st.encounters, encounter_ref)
        THEN [st EXCEPT !.encounters =
                AppendToEncounter(@, EncounterIndex(@, encounter_ref), event)]
        ELSE [st EXCEPT !.non_encounter_events = Append(@, event)]

\* the marker written into the resource of entry i instead of the event
MarkResource(b, i) ==
    [b EXCEPT ![i] = @ @@ ("encounter_referenced" :>
        IF Truthy(ResolveEncounterRef(b[i])) THEN ResolveEncounterRef(b[i]) ELSE StrNone)]

\* event['encounter_referenced'] = ... as seen from the bundle: the event is a
\* dict that _create_event_from_resource built, no part of entry i, so the
\* bundle is the one it was
MarkEvent(b, i) == b

\* the bundle after the second loop has run over the entries from i on
RECURSIVE BundleAfterAttribution(_, _)
BundleAfterAttribution(b, i) ==
    IF i > Len(b) THEN b
    ELSE BundleAfterAttribution(
             IF CreateEvent(b[i], i) # NoneEvent THEN MarkEvent(b, i) ELSE b, i + 1)

RECURSIVE AttributeEntries(_, _, _)
AttributeEntries(b, i, st) ==
    IF i > Len(b) THEN st
    ELSE AttributeEntries(b, i + 1, AttributeEntry(st, b[i], i))

----------------------------------------------------------------------------
(* Timeline Builder, pass 3: time-window reconciliation *)

\* the window test with the closed-window branch left out
InWindowOpenOnly(enc, event_date) ==
    /\ Truthy(enc.start) /\ ~Truthy(enc.end)
    /\ LexLE(enc.start, event_date)

\* the window test that looks at the start only, whatever the end
InWindowIgnoringEnd(enc, event_date) ==
    /\ Truthy(enc.start)
    /\ LexLE(enc.start, event_date)

\* the window test that looks at the end only, whatever the start holds
InWindowIgnoringStart(enc, event_date) ==
    \/ /\ Truthy(enc.start) /\ Truthy(enc.end)
       /\ LexLE(event_date, enc.end)
    \/ /\ Truthy(enc.start) /\ ~Truthy(enc.end)

\* the window test of one encounter for an event date
InWindow(enc, event_date) ==
    \/ /\ Truthy(enc.start) /\ Truthy(enc.end)
       /\ LexLE(enc.start, event_date) /\ LexLE(event_date, enc.end)
    \/ /\ Truthy(enc.start) /\ ~Truthy(enc.end)
       /\ LexLE(enc.start, event_date)

\* the encounters whose window holds the date, as positions in the order in
\* which 'for encounter_id, encounter in encounters.items()' visits them
WindowMatches(encs, event_date) ==
    {j \in 1..Len(encs) : InWindow(encs[j], event_date)}

\* the last encounter whose window holds the date, instead of the first
LastWindowMatch(encs, event_date) ==
    LET matches == WindowMatches(encs, event_date)
    IN  IF matches = {} THEN 0
        ELSE CHOOSE j \in matches : \A k \in matches : k <= j

\* the encounter the inner loop stops at (break), 0 when it runs to the end
FirstWindowMatch(encs, event_date) ==
    LET matches == WindowMatches(encs, event_date)
    IN  IF matches = {} THEN 0
        ELSE CHOOSE j \in matches : \A k \in matches : j <= k

\* the third loop without the break: every window that holds the date gets the event
ReconcileEventNoBreak(st, event) ==
    IF Truthy(event.date) /\ WindowMatches(st.encounters, event.date) # {}
    THEN [st EXCEPT !.encounters =
            [j \in 1..Len(@) |->
                IF InWindow(@[j], event.date)
                THEN [@[j] EXCEPT !.events = Append(@, event)] ELSE @[j]]]
    ELSE [st EXCEPT !.remaining = Append(@, event)]

\* the body of the third loop; st = [encounters, remaining]
ReconcileEvent(st, event) ==
    LET j == IF Truthy(event.date)
             THEN FirstWindowMatch(st.encounters, event.date) ELSE 0
    IN  IF j # 0
        THEN [st EXCEPT !.encounters = AppendToEncounter(@, j, event)]
        ELSE [st EXCEPT !.remaining = Append(@, event)]

RECURSIVE ReconcileEvents(_, _)
ReconcileEvents(pending, st) ==
    IF pending = <<>> THEN st
    ELSE ReconcileEvents(Tail(pending), ReconcileEvent(st, Head(pending)))

----------------------------------------------------------------------------
(* Timeline Builder, pass 4: sort, split and finalize *)

\* (x.get('date') is None, x.get('date', '')) < (y.get('date') is None, ...)
EventKeyLess(x, y) ==
    IF (x.date = None) # (y.date = None) THEN y.date = None
    ELSE IF x.date = None THEN FALSE
    ELSE LexLess(x.date, y.date)

\* one insertion of a sort that puts the event before its equals
InsertByKeyBeforeEquals(sorted, event) ==
    LET later == {j \in 1..Len(sorted) : ~EventKeyLess(sorted[j], event)}
        at == IF later = {} THEN Len(sorted) + 1
              ELSE CHOOSE j \in later : \A k \in later : j <= k
    IN  SubSeq(sorted, 1, at - 1) \o <<event>> \o SubSeq(sorted, at, Len(sorted))

\* one insertion of a stable sort by the event key
InsertByKey(sorted, event) ==
    LET later == {j \in 1..Len(sorted) : EventKeyLess(event, sorted[j])}
        at == IF later = {} THEN Len(sorted) + 1
              ELSE CHOOSE j \in later : \A k \in later : j <= k
    IN  SubSeq(sorted, 1, at - 1) \o <<event>> \o SubSeq(sorted, at, Len(sorted))

RECURSIVE StableSortByKey(_, _)
StableSortByKey(events, sorted) ==
    IF events = <<>> THEN sorted
    ELSE StableSortByKey(Tail(events), InsertByKey(sorted, Head(events)))

\* the events left in the order of arrival
SortEventsOmitted(events) == events

\* events.sort(key=lambda x: (x.get('date') is None, x.get('date', '')))
SortEvents(events) == StableSortByKey(events, <<>>)

IsDated(e) == ~e.undated
IsUndated(e) == e.undated

\* [e for e in events if not e.get('undated')]
DatedOf(events) == SelectSeq(events, IsDated)

\* [e for e in events if e.get('undated')]
UndatedOf(events) == SelectSeq(events, IsUndated)

\* the sort and split of one encounter
SortAndSplit(enc) ==
    LET sorted == SortEvents(enc.events)
    IN  [enc EXCEPT !.events = sorted]
          @@ [dated_events |-> DatedOf(sorted), undated_events |-> UndatedOf(sorted)]

\* one entry of timeline['encounters']
EncounterSummary(enc) ==
    [encounter_id |-> enc.id,
     start |-> enc.start,
     end |-> enc.end,
     class |-> enc.class,
     type |-> enc.type,
     dated_event_count |-> Len(enc.dated_events),
     undated_event_count |-> Len(enc.undated_events),
     events |-> enc.dated_events,
     undated_events |-> enc.undated_events]

\* sum(len(e[field]) for e in encounters.values())
RECURSIVE SumLen(_, _)
SumLen(encs, field) ==
    IF encs = <<>> THEN 0 ELSE Len(Head(encs)[field]) + SumLen(Tail(encs), field)

\* the summary without the demographics event counted
SummaryNoDemographics(encs, order, dated, undated, demographics) ==
    LET total_dated == SumLen(encs, "dated_events") + Len(dated)
        total_undated == SumLen(encs, "undated_events") + Len(undated)
    IN  [total_encounters |-> Len(order),
         total_events |-> total_dated + total_undated,
         total_dated_events |-> total_dated,
         total_undated_events |-> total_undated,
         events_with_encounter |->
            SumLen(encs, "dated_events") + SumLen(encs, "undated_events"),
         events_without_encounter |-> Len(dated) + Len(undated)]

\* the summary statistics
Summary(encs, order, dated, undated, demographics) ==
    LET total_dated == SumLen(encs, "dated_events") + Len(dated)
        total_undated == SumLen(encs, "undated_events") + Len(undated)
    IN  [total_encounters |-> Len(order),
         total_events |-> total_dated + total_undated
                            + (IF demographics # NoneEvent THEN 1 ELSE 0),
         total_dated_events |-> total_dated,
         total_undated_events |-> total_undated,
         events_with_encounter |->
            SumLen(encs, "dated_events") + SumLen(encs, "undated_events"),
         events_without_encounter |-> Len(dated) + Len(undated)]

\* the structured timeline returned by the build
BuildTimeline(pid, encs, order, pending, demographics) ==
    LET dated == DatedOf(pending)
        undated == UndatedOf(pending)
    IN  [patient_id |-> pid,
         demographics |-> demographics,
         encounters |-> [k \in 1..Len(order) |->
                            EncounterSummary(encs[EncounterIndex(encs, order[k])])],
         non_encounter_events |-> dated,
         non_encounter_undated_events |-> undated,
         summary |-> Summary(encs, order, dated, undated, demographics)]

----------------------------------------------------------------------------
(* Bundles given to the build *)

Res(type, id) == [resourceType |-> type, id |-> id]

ObsId(n) == <<111, 48 + n>>

\* "Encounter/<id>"
EncRef(id) == StrEncounterSlash \o id

\* Encounter resources of the ordering universe: both bounds (one of them
\* ending before the later dates), start only, no period at all; E1 and E2
\* can overlap, start in either order, or tie
OrderEncounters ==
    { Res("Encounter", E1) @@ [period |-> [start |-> DA, end |-> DC]],
      Res("Encounter", E1) @@ [period |-> [start |-> DA, end |-> DA]],
      Res("Encounter", E1) @@ [period |-> [start |-> DB]],
      Res("Encounter", E2) @@ [period |-> [start |-> DA, end |-> DC]],
      Res("Encounter", E2) @@ [period |-> [start |-> DC]],
      Res("Encounter", E2) }

\* the other resources of the ordering universe: dated and undated, with a
\* direct reference, without one, and with a reference to no encounter
OrderEvents ==
    { Res("Observation", ObsId(1)) @@ [effectiveDateTime |-> DB],
      Res("Observation", ObsId(2)) @@ [effectiveDateTime |-> DA],
      Res("Observation", ObsId(3)) @@ [encounter |-> [reference |-> EncRef(E1)]],
      Res("Observation", ObsId(4)) @@ [effectiveDateTime |-> DB,
                                       encounter |-> [reference |-> EncRef(E1)]],
      Res("Observation", ObsId(5)) @@ [effectiveDateTime |-> <<>>,
                                       encounter |-> [reference |-> EncRef(E1)]],
      Res("DocumentReference", ObsId(6)) @@ [date |-> DC,
                                       context |-> [reference |-> EncRef(E2)]],
      Res("Observation", ObsId(7)) @@ [encounter |-> [reference |-> EncRef(E9)]],
      Res("Patient", P1) @@ [birthDate |-> DA] }

OrderResources == OrderEncounters \cup OrderEvents

\* the store holds one resource per (type, id), so a bundle names none twice
DistinctIds(b) ==
    \A i, j \in 1..Len(b) :
        i < j => ~(b[i].resourceType = b[j].resourceType /\ b[i].id = b[j].id)

OrderBundles ==
    {b \in UNION {[1..n -> OrderResources] : n \in 0..MaxLen} : DistinctIds(b)}

\* the shapes in which a resource carries (or fails to carry) an encounter
RefVariants ==
    { EmptyDict,
      [encounter |-> [reference |-> EncRef(E2)]],
      [encounter |-> [reference |-> E2]],
      [encounter |-> EmptyDict],
      [encounter |-> [reference |-> EncRef(E9)]],
      [context |-> [encounter |-> <<[reference |-> EncRef(E2)]>>]],
      [context |-> [encounter |-> <<>>]],
      [context |-> [reference |-> EncRef(E2)]],
      [context |-> [reference |-> StrPatientSlash \o P1]],
      [context |-> EmptyDict],
      [encounter |-> [reference |-> EncRef(E9)],
       context |-> [reference |-> EncRef(E2)]] }

\* the timestamp fields a resource of each type may carry
DateVariants(t) ==
    CASE t = "Patient" -> {EmptyDict, [birthDate |-> DA]}
      [] t = "Condition" ->
            {EmptyDict, [onsetDateTime |-> DB], [recordedDate |-> DC],
             [onsetDateTime |-> <<>>, recordedDate |-> DC],
             [onsetDateTime |-> DA, recordedDate |-> DC]}
      [] t = "Procedure" -> {EmptyDict, [performedDateTime |-> DB]}
      [] t = "DocumentReference" -> {EmptyDict, [date |-> <<>>], [date |-> DB]}
      [] t = "Observation" ->
            {EmptyDict, [effectiveDateTime |-> <<>>], [effectiveDateTime |-> DB],
             [date |-> DB]}
      [] t = "MedicationRequest" -> {EmptyDict, [authoredOn |-> DB]}
      [] OTHER ->
            {EmptyDict, [issued |-> DB], [receivedTime |-> DB],
             [period |-> [start |-> DA]],
             [issued |-> <<>>, period |-> [start |-> DA]],
             [issued |-> DB, period |-> [start |-> DA]],
             [date |-> DC, issued |-> DB],
             [collection |-> [collectedDateTime |-> DB]],
             [collection |-> [collectedPeriod |-> [start |-> DC]]],
             [collection |-> [collectedDateTime |-> DB,
                              collectedPeriod |-> [start |-> DC]]],
             [collection |-> EmptyDict]}

\* coded fields, well formed and with empty lists
CodingVariants == {EmptyDict, [coding |-> <<EmptyDict>>], [coding |-> <<>>]}

CodeVariants(t) ==
    CASE t \in {"Condition", "Procedure", "Observation"} ->
            {[code |-> c] : c \in CodingVariants}
      [] t \in {"DocumentReference", "Specimen"} ->
            {[type |-> c] : c \in CodingVariants}
      [] t = "MedicationRequest" ->
            {[medicationCodeableConcept |-> c] : c \in CodingVariants}
      [] OTHER -> {}

WideTypes ==
    {"Patient", "Condition", "Procedure", "DocumentReference", "Observation",
     "MedicationRequest", "Specimen"}

R1 == <<114, 49>>

WideResources ==
    UNION { {Res(t, R1) @@ d @@ f : d \in DateVariants(t), f \in RefVariants}
            \cup {Res(t, R1) @@ d @@ c : d \in DateVariants(t), c \in CodeVariants(t)}
            : t \in WideTypes }

\* Encounter resources whose type list or coding list is empty or partial
PartialEncounters ==
    {Res("Encounter", E1) @@ [type |-> ts] :
        ts \in {<<>>, <<EmptyDict>>, <<[coding |-> <<>>]>>,
                <<[coding |-> <<[display |-> StrUnknown]>>]>>}}

WidePrefixes == {<<>>, <<Res("Encounter", E2) @@ [period |-> [start |-> DA, end |-> DC]]>>}

WideBundles ==
    {p \o <<r>> : p \in WidePrefixes, r \in WideResources \cup PartialEncounters}

\* "P<n>"
PatientId(n) == <<80, 48 + n>>

\* Patient resources: born on two days, without a birth date (no event), and
\* without a birth date but with an encounter (an undated event)
Patients ==
    { Res("Patient", PatientId(1)) @@ [birthDate |-> DA],
      Res("Patient", PatientId(2)) @@ [birthDate |-> DC],
      Res("Patient", PatientId(3)),
      Res("Patient", PatientId(4)) @@ [encounter |-> [reference |-> EncRef(E1)]] }

\* bundles that hold two or three Patient resources
PatientBundles ==
    {b \in [1..2 -> Patients] \cup [1..3 -> Patients] : DistinctIds(b)}

\* events of one instant, two that name E1 and two that name no encounter
TieEvents ==
    { Res("Observation", ObsId(1)) @@ [effectiveDateTime |-> DB],
      Res("Observation", ObsId(4)) @@ [effectiveDateTime |-> DB,
                                       encounter |-> [reference |-> EncRef(E1)]],
      Res("Observation", ObsId(8)) @@ [effectiveDateTime |-> DB],
      Res("Observation", ObsId(9)) @@ [effectiveDateTime |-> DB,
                                       encounter |-> [reference |-> EncRef(E1)]] }

\* bundles in which one encounter, or none, receives events of equal date
TieBundles ==
    {p \o b : p \in {<<>>, <<Res("Encounter", E1) @@ [period |-> [start |-> DA, end |-> DC]]>>},
              b \in {c \in [1..3 -> TieEvents] \cup [1..4 -> TieEvents] : DistinctIds(c)}}

Bundles == OrderBundles \cup WideBundles \cup PatientBundles \cup TieBundles

PatientIds == {P1}

----------------------------------------------------------------------------
(* The build as a state machine: one step per pass *)

\* the build is called once and alone
SingleBuild ==
    /\ run = 1
    /\ first_timeline = NoTimeline
    /\ other = [none |-> TRUE]

\* no server is running beside the client
ServerOff ==
    /\ valid_patient_uuids = {}
    /\ input = <<>>
    /\ cursor = 0
    /\ resources = <<>>
    /\ phase = "off"
    /\ response = [none |-> TRUE]

\* no thread asks for the server instance
InstanceOff ==
    /\ fhir_server = 0
    /\ server_config = FALSE
    /\ tpc = <<>>
    /\ made = <<>>
    /\ obtained = <<>>
    /\ constructed = 0

\* the entry of _process_timeline: arguments bound, no local assigned yet
BuildEntry ==
    /\ pc = "pass1"
    /\ encounters = <<>>
    /\ encounter_order = <<>>
    /\ non_encounter_events = <<>>
    /\ patient_demographics = NoneEvent
    /\ timeline = NoTimeline

Init ==
    /\ bundle \in Bundles
    /\ patient_id \in PatientIds
    /\ BuildEntry
    /\ SingleBuild
    /\ ServerOff
    /\ InstanceOff

\* the locals of a call that outlive it: what the last call left in them
EntryEncountersKept == [encounters |-> encounters, encounter_order |-> encounter_order]

\* encounters = {} ; encounter_order = []
EntryEncounters == [encounters |-> <<>>, encounter_order |-> <<>>]

\* a pending list that belongs to the client and is shared by its calls
EntryPendingShared == non_encounter_events

\* non_encounter_events = []
EntryPending == <<>>

\* first pass and the sort of encounter_order
Pass1 ==
    /\ pc = "pass1"
    /\ IF \E i \in 1..Len(bundle) :
            bundle[i].resourceType = "Encounter" /\ EncounterTypeRaises(bundle[i])
       THEN /\ pc' = "raised"
            /\ UNCHANGED <<encounters, encounter_order>>
       ELSE LET st == DiscoverEncounters(bundle, 1, EntryEncounters)
            IN  /\ encounters' = st.encounters
                /\ encounter_order' = SortEncounterOrder(st.encounters, st.encounter_order)
                /\ pc' = "pass2"
    /\ UNCHANGED <<bundle, patient_id, non_encounter_events, patient_demographics, timeline>>
    /\ UNCHANGED <<rebuild_vars, server_vars, instance_vars>>

\* second pass
Pass2 ==
    /\ pc = "pass2"
    /\ IF \E i \in 1..Len(bundle) : ExtractRaises(bundle[i])
       THEN /\ pc' = "raised"
            /\ UNCHANGED <<bundle, encounters, non_encounter_events,
                           patient_demographics>>
       ELSE LET st == AttributeEntries(bundle, 1,
                        [encounters |-> encounters,
                         non_encounter_events |-> EntryPending,
                         patient_demographics |-> NoneEvent])
            IN  /\ encounters' = st.encounters
                /\ non_encounter_events' = st.non_encounter_events
                /\ patient_demographics' = st.patient_demographics
                /\ bundle' = BundleAfterAttribution(bundle, 1)
                /\ pc' = "pass3"
    /\ UNCHANGED <<patient_id, encounter_order, timeline>>
    /\ UNCHANGED <<rebuild_vars, server_vars, instance_vars>>

\* third pass
Pass3 ==
    /\ pc = "pass3"
    /\ LET st == ReconcileEvents(non_encounter_events,
                    [encounters |-> encounters, remaining |-> <<>>])
       IN  /\ encounters' = st.encounters
           /\ non_encounter_events' = st.remaining
    /\ pc' = "pass4"
    /\ UNCHANGED <<bundle, patient_id, encounter_order, patient_demographics, timeline>>
    /\ UNCHANGED <<rebuild_vars, server_vars, instance_vars>>

\* the sorts and the dated/undated split
Pass4 ==
    /\ pc = "pass4"
    /\ encounters' = [j \in 1..Len(encounters) |-> SortAndSplit(encounters[j])]
    /\ non_encounter_events' = SortEvents(non_encounter_events)
    /\ pc' = "finalize"
    /\ UNCHANGED <<bundle, patient_id, encounter_order, patient_demographics, timeline>>
    /\ UNCHANGED <<rebuild_vars, server_vars, instance_vars>>

\* the timeline is built and returned
Finalize ==
    /\ pc = "finalize"
    /\ timeline' = BuildTimeline(patient_id, encounters, encounter_order,
                                 non_encounter_events, patient_demographics)
    /\ pc' = "done"
    /\ UNCHANGED <<bundle, patient_id, encounters, encounter_order,
                   non_encounter_events, patient_demographics>>
    /\ UNCHANGED <<rebuild_vars, server_vars, instance_vars>>

Next == Pass1 \/ Pass2 \/ Pass3 \/ Pass4 \/ Finalize

Spec == Init /\ [][Next]_vars

----------------------------------------------------------------------------
(* Reading the returned timeline *)

\* the places of a list that hold the event of bundle entry i
CountIn(list, i) == Cardinality({p \in 1..Len(list) : list[p].src = i})

InList(list, i) == \E p \in 1..Len(list) : list[p].src = i

\* the event lists of one encounter summary, dated first
BucketOf(summary) == summary.events \o summary.undated_events

RECURSIVE CountInEncounters(_, _)
CountInEncounters(summaries, i) ==
    IF summaries = <<>> THEN 0
    ELSE CountIn(BucketOf(Head(summaries)), i) + CountInEncounters(Tail(summaries), i)

NonEncounterBucket == timeline.non_encounter_events \o timeline.non_encounter_undated_events

\* the number of places of the timeline's buckets that hold the event of entry i
Occurrences(i) ==
    CountInEncounters(timeline.encounters, i) + CountIn(NonEncounterBucket, i)

\* the event of entry i is listed under the encounter summary with this id
InEncounterLists(id, i) ==
    \E k \in 1..Len(timeline.encounters) :
        timeline.encounters[k].encounter_id = id /\ InList(BucketOf(timeline.encounters[k]), i)

InNonEncounterLists(i) == InList(NonEncounterBucket, i)

\* the events of all buckets, and with the demographics slot
BucketEvents ==
    UNION {{BucketOf(timeline.encounters[k])[p] : p \in 1..Len(BucketOf(timeline.encounters[k]))}
              : k \in 1..Len(timeline.encounters)}
    \cup {NonEncounterBucket[p] : p \in 1..Len(NonEncounterBucket)}

TimelineEvents ==
    BucketEvents \cup (IF timeline.demographics = NoneEvent THEN {} ELSE {timeline.demographics})

\* the bundle positions of the Encounter resources, and their ids
EncounterEntries == {i \in 1..Len(bundle) : bundle[i].resourceType = "Encounter"}
DiscoveredIds == {bundle[i].id : i \in EncounterEntries}

\* the entries other than Patient and Encounter for which the extractor yields an event
EventEntries ==
    {i \in 1..Len(bundle) :
        /\ bundle[i].resourceType \notin {"Patient", "Encounter"}
        /\ CreateEvent(bundle[i], i) # NoneEvent}

Done == pc = "done"

----------------------------------------------------------------------------
(* Claims *)

\* C1: every event the extractor yields for a non-Patient resource is held by
\* exactly one place of the timeline's buckets (one encounter's lists or the
\* non-encounter lists): never two, never none.
C1_ExactlyOneBucket ==
    Done => \A i \in EventEntries : Occurrences(i) = 1

\* an event was moved into an encounter by its time window while another
\* stayed outside every encounter
C1_Witness ==
    /\ Done
    /\ \E i, j \in EventEntries :
          /\ ResolveEncounterRef(bundle[i]) = None
          /\ \E k \in 1..Len(timeline.encounters) : InList(BucketOf(timeline.encounters[k]), i)
          /\ InNonEncounterLists(j)

RECURSIVE SumEmitted(_)
SumEmitted(summaries) ==
    IF summaries = <<>> THEN 0
    ELSE Len(Head(summaries).events) + Len(Head(summaries).undated_events)
            + SumEmitted(Tail(summaries))

\* C2: summary.total_events is 1 if demographics is present, plus the dated
\* and undated events of every emitted encounter summary, plus the lengths of
\* the two non-encounter lists.
C2_TotalEvents ==
    Done =>
        timeline.summary.total_events =
            (IF timeline.demographics # NoneEvent THEN 1 ELSE 0)
            + SumEmitted(timeline.encounters)
            + Len(timeline.non_encounter_events)
            + Len(timeline.non_encounter_undated_events)

\* demographics, an event under an encounter and nothing else
C2_Witness ==
    /\ Done
    /\ timeline.demographics # NoneEvent
    /\ SumEmitted(timeline.encounters) >= 1
    /\ timeline.summary.total_events >= 2

\* C3 as stated: every event of the timeline (the demographics event
\* included) whose encounter reference names a discovered encounter is listed
\* under that encounter and not in the non-encounter lists.
C3_Original ==
    Done =>
        \A e \in TimelineEvents :
            e.encounter_referenced \in DiscoveredIds =>
                /\ InEncounterLists(e.encounter_referenced, e.src)
                /\ ~InNonEncounterLists(e.src)

\* C3 (amended): every event of a non-Patient resource whose resolved
\* encounter reference names an encounter discovered in pass 1 is listed
\* under that encounter (dated or undated list) and never in the
\* non-encounter lists.
C3_DirectAttribution ==
    Done =>
        \A i \in EventEntries :
            ResolveEncounterRef(bundle[i]) \in DiscoveredIds =>
                /\ InEncounterLists(ResolveEncounterRef(bundle[i]), i)
                /\ ~InNonEncounterLists(i)

\* an undated event is listed under the encounter it names
C3_Witness ==
    /\ Done
    /\ \E i \in EventEntries :
          /\ ResolveEncounterRef(bundle[i]) \in DiscoveredIds
          /\ ~Truthy(EventDate(bundle[i]))
          /\ InEncounterLists(ResolveEncounterRef(bundle[i]), i)

\* a list holds dated events only, in non-decreasing order of date string
DatedSorted(list) ==
    /\ \A p \in 1..Len(list) : ~list[p].undated /\ Truthy(list[p].date)
    /\ \A p, q \in 1..Len(list) : p < q => LexLE(list[p].date, list[q].date)

AllUndated(list) == \A p \in 1..Len(list) : list[p].undated /\ ~Truthy(list[p].date)

\* C4: in every bucket the dated list holds only dated events in
\* non-decreasing order of date string and the undated list, which follows
\* it, holds only undated events.
C4_BucketOrder ==
    Done =>
        /\ \A k \in 1..Len(timeline.encounters) :
              /\ DatedSorted(timeline.encounters[k].events)
              /\ AllUndated(timeline.encounters[k].undated_events)
        /\ DatedSorted(timeline.non_encounter_events)
        /\ AllUndated(timeline.non_encounter_undated_events)

\* a bucket whose dated events arrived in descending order, next to an
\* undated event
C4_Witness ==
    /\ Done
    /\ Len(timeline.non_encounter_events) >= 2
    /\ timeline.non_encounter_events[1].src > timeline.non_encounter_events[2].src
    /\ timeline.non_encounter_events[1].date # timeline.non_encounter_events[2].date
    /\ Len(timeline.non_encounter_undated_events) >= 1

\* the start key of an emitted summary: a missing start is the empty string
EmittedStartKey(summary) == IF summary.start = None THEN <<>> ELSE summary.start

\* C5: the encounter summaries are in non-decreasing order of start string,
\* a missing start counting as the empty string, so before every present
\* start.
C5_EncounterOrder ==
    Done =>
        \A a, b \in 1..Len(timeline.encounters) :
            a < b => LexLE(EmittedStartKey(timeline.encounters[a]),
                           EmittedStartKey(timeline.encounters[b]))

\* an encounter without start, discovered second, is emitted first
C5_Witness ==
    /\ Done
    /\ Len(timeline.encounters) = 2
    /\ timeline.encounters[1].start = None
    /\ timeline.encounters[2].start # None
    /\ encounters[1].id = timeline.encounters[2].encounter_id

\* the window of an Encounter resource, read from its period
PeriodHolds(r, d) ==
    LET period == Get(r, "period", EmptyDict)
        start == Get(period, "start", <<>>)
        end == Get(period, "end", <<>>)
    IN  /\ start # <<>>
        /\ LexLE(start, d)
        /\ end # <<>> => LexLE(d, end)

\* the Encounter entries whose window holds the date of entry i
Holders(i) == {j \in EncounterEntries : PeriodHolds(bundle[j], EventDate(bundle[i]))}

\* the dated events that no reference attributes to a discovered encounter
PendingDated ==
    {i \in EventEntries :
        /\ Truthy(EventDate(bundle[i]))
        /\ ResolveEncounterRef(bundle[i]) \notin DiscoveredIds}

\* C6: a pending dated event whose date lies in the windows of two or more
\* encounters is listed under the one whose Encounter resource comes first in
\* the bundle.
C6_DiscoveryOrderWins ==
    Done =>
        \A i \in PendingDated :
            Cardinality(Holders(i)) >= 2 =>
                \E j \in Holders(i) :
                    /\ \A k \in Holders(i) : j <= k
                    /\ InEncounterLists(bundle[j].id, i)

\* the winner is neither the encounter with the earliest start nor the first
\* emitted one
C6_Witness ==
    /\ Done
    /\ \E i \in PendingDated :
          /\ Cardinality(Holders(i)) >= 2
          /\ \E j \in Holders(i) :
                /\ \A k \in Holders(i) : j <= k
                /\ InEncounterLists(bundle[j].id, i)
                /\ timeline.encounters[1].encounter_id # bundle[j].id
                /\ \E k \in Holders(i) :
                      LexLess(bundle[k].period.start, bundle[j].period.start)

\* [Encounter E1 2021-01-01..2021-01-02, Observation 2021-01-01T10:00:00Z]
ScenarioA ==
    << Res("Encounter", E1) @@ [period |-> [start |-> DA, end |-> DC]],
       Res("Observation", ObsId(1)) @@ [effectiveDateTime |-> DB] >>

\* C7: for scenario A the observation is pending after pass 2, pass 3 moves
\* it into E1, and the timeline lists it in E1's dated events with
\* non_encounter_events empty.
C7_ScenarioA ==
    bundle = ScenarioA =>
        /\ pc = "pass3" =>
              /\ Len(non_encounter_events) = 1 /\ non_encounter_events[1].src = 2
              /\ encounters[1].events = <<>>
        /\ pc = "pass4" =>
              /\ non_encounter_events = <<>>
              /\ Len(encounters[1].events) = 1 /\ encounters[1].events[1].src = 2
        /\ Done =>
              /\ Len(timeline.encounters) = 1
              /\ timeline.encounters[1].encounter_id = E1
              /\ Len(timeline.encounters[1].events) = 1
              /\ timeline.encounters[1].events[1].src = 2
              /\ timeline.encounters[1].events[1].date = DB
              /\ timeline.encounters[1].undated_events = <<>>
              /\ timeline.non_encounter_events = <<>>
              /\ timeline.non_encounter_undated_events = <<>>

C7_Witness == Done /\ bundle = ScenarioA /\ Len(timeline.encounters[1].events) = 1

\* the events of the timeline (buckets and demographics) made from entry i
EventsOf(i) == {e \in TimelineEvents : e.src = i}

\* the resource carries an encounter or context field
CarriesAssociation(r) == "encounter" \in DOMAIN r \/ "context" \in DOMAIN r

\* C8: a resource other than an Encounter yields an event exactly if a date
\* was found for it or it carries an encounter/context field; the event is
\* undated exactly if no date was found.  With neither, the resource is
\* nowhere in the timeline.
C8_CreationRule ==
    Done =>
        \A i \in 1..Len(bundle) :
            LET r == bundle[i]
                dated == Truthy(EventDate(r))
                rule == dated \/ CarriesAssociation(r)
            IN  r.resourceType # "Encounter" =>
                    /\ ~rule => EventsOf(i) = {}
                    /\ rule /\ r.resourceType # "Patient" => Occurrences(i) >= 1
                    /\ rule /\ r.resourceType = "Patient" => timeline.demographics # NoneEvent
                    /\ \A e \in EventsOf(i) :
                          /\ e.undated = ~dated
                          /\ dated => e.date = EventDate(r)

\* scenario B: a Condition with no date field and no encounter/context field
C8_Witness ==
    /\ Done
    /\ \E i \in 1..Len(bundle) :
          /\ bundle[i].resourceType = "Condition"
          /\ DOMAIN bundle[i] = {"resourceType", "id"}
          /\ EventsOf(i) = {}
    /\ timeline.summary.total_events = 0

\* the three shapes in which a resource names encounter x
DirectShape(r, x) ==
    /\ "encounter" \in DOMAIN r
    /\ "reference" \in DOMAIN r.encounter
    /\ r.encounter.reference = EncRef(x)

ContextListShape(r, x) ==
    /\ "encounter" \notin DOMAIN r /\ "context" \in DOMAIN r
    /\ "encounter" \in DOMAIN r.context
    /\ r.context.encounter # <<>>
    /\ "reference" \in DOMAIN r.context.encounter[1]
    /\ r.context.encounter[1].reference = EncRef(x)

ContextReferenceShape(r, x) ==
    /\ "encounter" \notin DOMAIN r /\ "context" \in DOMAIN r
    /\ "encounter" \notin DOMAIN r.context
    /\ "reference" \in DOMAIN r.context
    /\ r.context.reference = EncRef(x)

NamesEncounter(r, x) ==
    DirectShape(r, x) \/ ContextListShape(r, x) \/ ContextReferenceShape(r, x)

\* C9: an event made from a resource that names encounter x in any of the
\* three shapes has encounter_referenced = x and, when x is an encounter of
\* the bundle and the resource is no Patient, is listed under x (in the dated
\* list when it has a date); an event made from a resource with no encounter
\* and no context field has encounter_referenced = "none".
C9_ReferenceShapes ==
    Done =>
        \A i \in 1..Len(bundle) : \A e \in EventsOf(i) :
            /\ \A x \in {E1, E2, E9} :
                  NamesEncounter(bundle[i], x) =>
                      /\ e.encounter_referenced = x
                      /\ (x \in DiscoveredIds /\ bundle[i].resourceType # "Patient") =>
                            \E k \in 1..Len(timeline.encounters) :
                                /\ timeline.encounters[k].encounter_id = x
                                /\ InList(IF e.undated
                                          THEN timeline.encounters[k].undated_events
                                          ELSE timeline.encounters[k].events, i)
            /\ ~CarriesAssociation(bundle[i]) => e.encounter_referenced = StrNone

\* [Encounter E2, DocumentReference dated, context.reference = "Encounter/E2"]
ScenarioC ==
    << Res("Encounter", E2) @@ [period |-> [start |-> DA, end |-> DC]],
       Res("DocumentReference", R1) @@ [date |-> DB]
            @@ [context |-> [reference |-> EncRef(E2)]] >>

\* scenario C: the document is in E2's dated events with encounter_referenced E2
C9_Witness ==
    /\ Done
    /\ bundle = ScenarioC
    /\ Len(timeline.encounters[1].events) = 1
    /\ timeline.encounters[1].events[1].src = 2
    /\ timeline.encounters[1].events[1].encounter_referenced = E2

\* C10: the build never raises, whatever the bundle holds.
C10_NeverRaises == pc # "raised"

\* the events that pass 2 leaves pending: no reference of theirs names a
\* discovered encounter
Pending == {i \in EventEntries : ResolveEncounterRef(bundle[i]) \notin DiscoveredIds}

\* C20: pass 3 lists a pending event under an encounter only if the event
\* has a date and the window of that encounter holds it: start <= date <= end
\* with both bounds, start <= date with a start only, never without a start.
\* A pending event with no date, or whose date no window holds, is in the
\* non-encounter lists.
C20_WindowRule ==
    Done =>
        \A i \in Pending :
            /\ \A j \in EncounterEntries :
                  InEncounterLists(bundle[j].id, i) =>
                      /\ Truthy(EventDate(bundle[i]))
                      /\ PeriodHolds(bundle[j], EventDate(bundle[i]))
            /\ (~Truthy(EventDate(bundle[i])) \/ Holders(i) = {}) =>
                  InNonEncounterLists(i)

\* one pending event lies after the end of the only window and stays in the
\* non-encounter lists, another lies inside it and is listed under E1
C20_Witness ==
    /\ Done
    /\ \E i, k \in Pending, j \in EncounterEntries :
          /\ Truthy(EventDate(bundle[i]))
          /\ "period" \in DOMAIN bundle[j]
          /\ "end" \in DOMAIN bundle[j].period
          /\ LexLE(bundle[j].period.start, EventDate(bundle[i]))
          /\ LexLess(bundle[j].period.end, EventDate(bundle[i]))
          /\ InNonEncounterLists(i)
          /\ InEncounterLists(bundle[j].id, k)

\* the bundle positions of the Patient resources
PatientEntries == {i \in 1..Len(bundle) : bundle[i].resourceType = "Patient"}

\* C21: no event of the finished timeline comes from an Encounter resource
\* or has the type Encounter, and the event of a Patient resource is in no
\* encounter list and in no non-encounter list, whatever encounter or context
\* the Patient carries: the only place that may hold it is the demographics.
C21_StructuralResources ==
    Done =>
        /\ \A e \in TimelineEvents :
              /\ e.type # "Encounter"
              /\ e.src \notin EncounterEntries
        /\ \A i \in PatientEntries :
              /\ Occurrences(i) = 0
              /\ \A e \in BucketEvents : e.type # "Patient"
              /\ CreateEvent(bundle[i], i) # NoneEvent =>
                    timeline.demographics # NoneEvent

\* a Patient that names a discovered encounter and is born inside its window
\* is the demographics, and the encounter, which has a period, lists nothing
C21_Witness ==
    /\ Done
    /\ \E i \in PatientEntries, j \in EncounterEntries :
          /\ ResolveEncounterRef(bundle[i]) = bundle[j].id
          /\ Truthy(EventDate(bundle[i]))
          /\ PeriodHolds(bundle[j], EventDate(bundle[i]))
          /\ timeline.demographics # NoneEvent
          /\ timeline.demographics.src = i
          /\ \A k \in 1..Len(timeline.encounters) :
                BucketOf(timeline.encounters[k]) = <<>>

\* the Patient resources of the bundle that produce an event
YieldingPatients == {i \in PatientEntries : CreateEvent(bundle[i], i) # NoneEvent}

LastOf(S) == CHOOSE i \in S : \A j \in S : j <= i

\* C22: a bundle with more than one Patient resource does not make the build
\* fail, and the demographics of the finished timeline is the event of the
\* last Patient, in bundle order, that produced an event (none if no Patient
\* produced one).
C22_LastPatientWins ==
    Cardinality(PatientEntries) > 1 =>
        /\ pc # "raised"
        /\ Done =>
              IF YieldingPatients = {} THEN timeline.demographics = NoneEvent
              ELSE /\ timeline.demographics # NoneEvent
                   /\ timeline.demographics.src = LastOf(YieldingPatients)
                   /\ timeline.demographics.resource_id =
                         bundle[LastOf(YieldingPatients)].id
                   /\ timeline.demographics.type = "Patient"

\* three Patients: the first two produce events, the last one produces none,
\* and the demographics is the event of the second
C22_Witness ==
    /\ Done
    /\ Len(bundle) = 3
    /\ PatientEntries = {1, 2, 3}
    /\ YieldingPatients = {1, 2}
    /\ timeline.demographics # NoneEvent
    /\ timeline.demographics.src = 2
    /\ timeline.demographics.resource_id # bundle[1].id

\* the resource types the extractor has a branch for
RecognizedTypes ==
    {"Patient", "Encounter", "Condition", "Procedure", "DocumentReference",
     "Observation", "MedicationRequest"}

\* the bundle positions of the resources of any other type
GenericEntries ==
    {i \in 1..Len(bundle) : bundle[i].resourceType \notin RecognizedTypes}

PathsOfDepth(n) == SelectSeq(TimestampFields, LAMBDA f : Len(f) = n)

\* the priority list by tiers: direct fields, one-level paths, two-level paths
TieredFields == PathsOfDepth(1) \o PathsOfDepth(2) \o PathsOfDepth(3)

RECURSIVE FirstNonEmpty(_, _)
FirstNonEmpty(r, fields) ==
    IF fields = <<>> THEN None
    ELSE IF FieldValue(r, Head(fields)) \notin {None, <<>>}
    THEN FieldValue(r, Head(fields))
    ELSE FirstNonEmpty(r, Tail(fields))

EventsOfEntry(i) == {e \in BucketEvents : e.src = i}

\* C23: the event of a resource of an unrecognized type is dated with the
\* first non-empty value of the priority list, every direct field tried before
\* any one-level path and every one-level path before the two-level path; its
\* date is absent only when every entry of the list is missing or empty.
C23_GenericTimestamp ==
    Done =>
        \A i \in GenericEntries :
            LET want == FirstNonEmpty(bundle[i], TieredFields)
            IN  /\ want # None =>
                      /\ EventsOfEntry(i) # {}
                      /\ \A e \in EventsOfEntry(i) : e.date = want /\ ~e.undated
                /\ \A e \in EventsOfEntry(i) :
                      e.date \in {None, <<>>} =>
                          \A k \in 1..Len(TimestampFields) :
                              FieldValue(bundle[i], TimestampFields[k]) \in {None, <<>>}

\* a Specimen with an empty direct field and a period takes the period's
\* start; another bundle's Specimen with two direct fields takes the one that
\* is earlier in the list although the resource holds the other one too
C23_Witness ==
    /\ Done
    /\ \E i \in GenericEntries : \E e \in EventsOfEntry(i) :
          \/ /\ "issued" \in DOMAIN bundle[i]
             /\ bundle[i].issued = <<>>
             /\ "period" \in DOMAIN bundle[i]
             /\ e.date = bundle[i].period.start
          \/ /\ "issued" \in DOMAIN bundle[i]
             /\ "date" \in DOMAIN bundle[i]
             /\ bundle[i].date # bundle[i].issued
             /\ e.date = bundle[i].issued

\* the events listed under the k-th encounter of the timeline
ListedUnder(k) ==
    {BucketOf(timeline.encounters[k])[p] : p \in 1..Len(BucketOf(timeline.encounters[k]))}

\* C24 as stated: every event listed under an encounter has an
\* encounter_referenced equal to that encounter's id or to "none".
C24_Original ==
    Done =>
        \A k \in 1..Len(timeline.encounters) :
            \A e \in ListedUnder(k) :
                e.encounter_referenced \in {timeline.encounters[k].encounter_id, StrNone}

\* C24 (amended): every event listed under an encounter has an
\* encounter_referenced equal to that encounter's id, or to "none", or to an
\* id that no Encounter of the bundle has; no event is listed under an
\* encounter while its encounter_referenced names another discovered encounter.
C24_NeverAnotherDiscovered ==
    Done =>
        \A k \in 1..Len(timeline.encounters) :
            \A e \in ListedUnder(k) :
                \/ e.encounter_referenced \in {timeline.encounters[k].encounter_id, StrNone}
                \/ e.encounter_referenced \notin DiscoveredIds

\* a dated event that names an encounter the bundle does not hold is listed
\* under a discovered encounter and still carries the name it was given
C24_Witness ==
    /\ Done
    /\ \E k \in 1..Len(timeline.encounters) : \E e \in ListedUnder(k) :
          /\ e.encounter_referenced # StrNone
          /\ e.encounter_referenced # timeline.encounters[k].encounter_id
          /\ e.encounter_referenced \notin DiscoveredIds
          /\ ~e.undated

\* the window of a timeline encounter holds the date: start <= date, and
\* date <= end when an end is present
SummaryWindowHolds(summary, d) ==
    /\ summary.start \notin {None, <<>>}
    /\ LexLE(summary.start, d)
    /\ summary.end \notin {None, <<>>} => LexLE(d, summary.end)

\* C25: every undated event listed under an encounter names that encounter
\* in encounter_referenced, and every dated event listed under an encounter
\* that names anything else has a date inside that encounter's window.
C25_PlacedByNameOrWindow ==
    Done =>
        \A k \in 1..Len(timeline.encounters) :
            \A e \in ListedUnder(k) :
                /\ e.undated =>
                      e.encounter_referenced = timeline.encounters[k].encounter_id
                /\ (~e.undated
                      /\ e.encounter_referenced # timeline.encounters[k].encounter_id) =>
                      SummaryWindowHolds(timeline.encounters[k], e.date)

\* one encounter lists an undated event that names it and a dated event that
\* names no encounter and lies inside its window
C25_Witness ==
    /\ Done
    /\ \E k \in 1..Len(timeline.encounters) :
          /\ \E e \in ListedUnder(k) :
                /\ e.undated
                /\ e.encounter_referenced = timeline.encounters[k].encounter_id
          /\ \E e \in ListedUnder(k) :
                /\ ~e.undated
                /\ e.encounter_referenced = StrNone
                /\ SummaryWindowHolds(timeline.encounters[k], e.date)

\* the bundle position of the Encounter resource with this id
EntryOfEncounter(id) == CHOOSE i \in EncounterEntries : bundle[i].id = id

\* encounters[x]['start'] or ''
SummaryStartKey(summary) ==
    IF summary.start \in {None, <<>>} THEN <<>> ELSE summary.start

\* C26: ties are broken by arrival.  Among the dated events of one encounter
\* with equal date strings, the events attributed directly precede the events
\* placed by window, and events of the same origin keep their bundle order;
\* dated non-encounter events of equal date keep their bundle order; and
\* encounters with equal start keys are emitted in discovery order.
C26_StableTies ==
    Done =>
        /\ \A k \in 1..Len(timeline.encounters) :
              LET id == timeline.encounters[k].encounter_id
                  list == timeline.encounters[k].events
                  Direct(e) == e.encounter_referenced = id
              IN  \A p, q \in 1..Len(list) :
                      (p < q /\ list[p].date = list[q].date) =>
                          /\ ~(~Direct(list[p]) /\ Direct(list[q]))
                          /\ Direct(list[p]) = Direct(list[q]) =>
                                list[p].src < list[q].src
        /\ \A p, q \in 1..Len(timeline.non_encounter_events) :
              (p < q /\ timeline.non_encounter_events[p].date
                          = timeline.non_encounter_events[q].date) =>
                  timeline.non_encounter_events[p].src < timeline.non_encounter_events[q].src
        /\ \A p, q \in 1..Len(timeline.encounters) :
              (p < q /\ SummaryStartKey(timeline.encounters[p])
                          = SummaryStartKey(timeline.encounters[q])) =>
                  EntryOfEncounter(timeline.encounters[p].encounter_id)
                      < EntryOfEncounter(timeline.encounters[q].encounter_id)

\* four events of one instant under one encounter: the two that name it come
\* first although the bundle holds them after the two placed by window
C26_Witness ==
    /\ Done
    /\ Len(timeline.encounters) = 1
    /\ LET list == timeline.encounters[1].events
       IN  /\ Len(list) = 4
           /\ \A p, q \in 1..4 : list[p].date = list[q].date
           /\ list[1].encounter_referenced = timeline.encounters[1].encounter_id
           /\ list[2].encounter_referenced = timeline.encounters[1].encounter_id
           /\ list[3].encounter_referenced = StrNone
           /\ list[4].encounter_referenced = StrNone
           /\ list[3].src < list[1].src
           /\ list[4].src < list[2].src

\* the list holds its events in bundle order
InBundleOrder(list) ==
    \A p, q \in 1..Len(list) : p < q => list[p].src < list[q].src

\* C27: the undated list of every bucket (each encounter's undated_events and
\* non_encounter_undated_events) holds its events in the order in which they
\* were appended, which is bundle order, also when a date field is present
\* but is the empty string.
C27_UndatedAppendOrder ==
    Done =>
        /\ \A k \in 1..Len(timeline.encounters) :
              InBundleOrder(timeline.encounters[k].undated_events)
        /\ InBundleOrder(timeline.non_encounter_undated_events)

----------------------------------------------------------------------------
(* The server: strings and values of the store *)

\* longest input (lines of the resource files, then rows of the note files)
MaxInput == 3

\* patient uuids: P1, one whose last characters are those of P1, and P3
XP1 == <<88, 80, 49>>
P3 == <<80, 51>>

\* subject ids of the note files
S1 == <<83, 49>>
S3 == <<83, 51>>

\* "Patient/<id>"
PatientRef(id) == StrPatientSlash \o id

\* s.startswith(p) and s.endswith(p)
StartsWith(s, p) == Len(s) >= Len(p) /\ SubSeq(s, 1, Len(p)) = p
EndsWith(s, p) == Len(s) >= Len(p) /\ SubSeq(s, Len(s) - Len(p) + 1, Len(s)) = p

\* resource.get('subject', {}).get('reference', '')
SubjectReference(r) ==
    IF "subject" \in DOMAIN r THEN Get(r.subject, "reference", <<>>) ELSE <<>>

\* resource.get('patient', {}).get('reference', '')
PatientReference(r) ==
    IF "patient" \in DOMAIN r THEN Get(r.patient, "reference", <<>>) ELSE <<>>

\* None where a resource or a bundle is expected
NoResource == [none |-> TRUE]

\* no request answered yet
NoResponse == [none |-> TRUE]

----------------------------------------------------------------------------
(* The store: self.resources, a defaultdict(dict) {type: {id: resource}}.  *)
(* Both levels keep insertion order, so the store is a sequence of types,  *)
(* each with the sequence of its resources.                                *)

HasType(st, t) == \E j \in 1..Len(st) : st[j].type = t

TypeIndex(st, t) == CHOOSE j \in 1..Len(st) : st[j].type = t

\* self.resources[t]: the defaultdict inserts an empty dict for a new key
Touch(st, t) ==
    IF HasType(st, t) THEN st ELSE Append(st, [type |-> t, items |-> <<>>])

\* the dict of one type kept as a list: a line read again is held again
ItemPutAppending(items, r) == Append(items, r)

\* d[r.id] = r on the dict of one type: a known id keeps its place
ItemPut(items, r) ==
    IF \E j \in 1..Len(items) : items[j].id = r.id
    THEN [j \in 1..Len(items) |-> IF items[j].id = r.id THEN r ELSE items[j]]
    ELSE Append(items, r)

\* self.resources[t][r.id] = r
StorePut(st, t, r) ==
    LET st1 == Touch(st, t)
        j == TypeIndex(st1, t)
    IN  [st1 EXCEPT ![j].items = ItemPut(@, r)]

\* the lookup that indexes the defaultdict and so inserts the missing type
StoreGetInserting(st, t) ==
    LET st1 == Touch(st, t)
    IN  [resources |-> st1, value |-> st1[TypeIndex(st1, t)].items]

\* self.resources.get(t, {}): the store after the call and the dict returned
StoreGet(st, t) ==
    [resources |-> st,
     value |-> IF HasType(st, t) THEN st[TypeIndex(st, t)].items ELSE <<>>]

----------------------------------------------------------------------------
(* The load *)

\* the filter keeping every resource, whatever patient it belongs to
ShouldIncludeResourceAlways(valid, r) == TRUE

\* _should_include_resource
ShouldIncludeResource(valid, r) ==
    IF r.resourceType \in {"Organization", "Location", "Medication"} THEN TRUE
    ELSE IF r.resourceType = "Patient" THEN r.id \in valid
    ELSE IF StartsWith(SubjectReference(r), StrPatientSlash)
         THEN LastSegment(SubjectReference(r)) \in valid
    ELSE TRUE

\* the mapping file: patients_with_notes as (patient_uuid, subject_id) pairs
MappingFile ==
    { [patient_uuid |-> P1, subject_id |-> S1],
      [patient_uuid |-> XP1, subject_id |-> <<83, 50>>] }

\* self.subject_to_uuid, filled from the same rows as valid_patient_uuids
SubjectToUuid(valid) ==
    [s \in {m.subject_id : m \in {x \in MappingFile : x.patient_uuid \in valid}} |->
        (CHOOSE m \in MappingFile : m.subject_id = s).patient_uuid]

\* the id of the k-th DocumentReference created: uuid4 gives a fresh one
NoteId(k) == <<110, 48 + k>>

\* _create_document_reference: the fields the store and its readers look at
CreateDocumentReference(row, patient_uuid, k) ==
    [resourceType |-> "DocumentReference",
     id |-> NoteId(k),
     subject |-> [reference |-> PatientRef(patient_uuid)]]

----------------------------------------------------------------------------
(* The read operations.  Each gives the store after the call and the value *)
(* returned.                                                               *)

\* get_resource
GetResource(st, t, id) ==
    LET g == StoreGet(st, t)
        hits == SelectSeq(g.value, LAMBDA r : r.id = id)
    IN  [resources |-> g.resources,
         value |-> IF hits = <<>> THEN NoResource ELSE hits[1]]

\* the match that knows only the exact reference "Patient/<value>"
MatchesSearchParamsExact(r, params) ==
    \A p \in DOMAIN params :
        /\ p = "_id" => r.id = params[p]
        /\ p \in {"patient", "subject"} => SubjectReference(r) = PatientRef(params[p])

\* the match that reads the element the parameter is named after: 'subject'
\* the subject reference, 'patient' the patient reference
MatchesSearchParamsByElement(r, params) ==
    \A p \in DOMAIN params :
        /\ p = "_id" => ~(r.id # params[p])
        /\ p = "subject" =>
              ~(/\ ~EndsWith(SubjectReference(r), params[p])
                /\ PatientRef(params[p]) # SubjectReference(r))
        /\ p = "patient" =>
              ~(/\ ~EndsWith(PatientReference(r), params[p])
                /\ PatientRef(params[p]) # PatientReference(r))

\* _matches_search_params
MatchesSearchParams(r, params) ==
    \A p \in DOMAIN params :
        /\ p = "_id" => ~(r.id # params[p])
        /\ p \in {"patient", "subject"} =>
              ~(/\ ~EndsWith(SubjectReference(r), params[p])
                /\ PatientRef(params[p]) # SubjectReference(r))

\* search_resources
SearchResources(st, t, params) ==
    LET g == StoreGet(st, t)
    IN  [resources |-> g.resources,
         value |-> SelectSeq(g.value, LAMBDA r : MatchesSearchParams(r, params))]

\* the test that also accepts a reference merely ending with the id
ResourceReferencesPatientBySuffix(r, pid) ==
    \/ EndsWith(SubjectReference(r), pid)
    \/ EndsWith(PatientReference(r), pid)

\* _resource_references_patient
ResourceReferencesPatient(r, pid) ==
    \/ SubjectReference(r) = PatientRef(pid)
    \/ PatientReference(r) = PatientRef(pid)

\* one bundle entry; fullUrl is the base address followed by type and id
BundleEntry(t, r) == [fullUrl |-> <<t, r.id>>, resource |-> r]

\* the loop that walks the types of the store from the last to the first
RECURSIVE ReferencingEntriesReversed(_, _, _)
ReferencingEntriesReversed(st, j, pid) ==
    IF j > Len(st) THEN <<>>
    ELSE LET hits == SelectSeq(st[j].items,
                               LAMBDA r : ResourceReferencesPatient(r, pid))
             here == IF st[j].type = "Patient" THEN <<>>
                     ELSE [k \in 1..Len(hits) |-> BundleEntry(st[j].type, hits[k])]
         IN  ReferencingEntriesReversed(st, j + 1, pid) \o here

\* the entries of the types st[j..], Patient skipped
RECURSIVE ReferencingEntries(_, _, _)
ReferencingEntries(st, j, pid) ==
    IF j > Len(st) THEN <<>>
    ELSE LET hits == SelectSeq(st[j].items,
                               LAMBDA r : ResourceReferencesPatient(r, pid))
             here == IF st[j].type = "Patient" THEN <<>>
                     ELSE [k \in 1..Len(hits) |-> BundleEntry(st[j].type, hits[k])]
         IN  here \o ReferencingEntries(st, j + 1, pid)

\* the assembly that answers for an unknown patient too
GetPatientEverythingUnchecked(st, pid) ==
    LET g == GetResource(st, "Patient", pid)
        entries == <<[fullUrl |-> <<"Patient", pid>>, resource |-> g.value]>>
                       \o ReferencingEntries(g.resources, 1, pid)
    IN  [resources |-> g.resources,
         value |-> [resourceType |-> "Bundle", type |-> "searchset",
                    total |-> Len(entries), entry |-> entries]]

\* get_patient_everything
GetPatientEverything(st, pid) ==
    LET g == GetResource(st, "Patient", pid)
    IN  IF g.value = NoResource
        THEN [resources |-> g.resources, value |-> NoResource]
        ELSE LET entries == <<[fullUrl |-> <<"Patient", pid>>, resource |-> g.value]>>
                                \o ReferencingEntries(g.resources, 1, pid)
             IN  [resources |-> g.resources,
                  value |-> [resourceType |-> "Bundle", type |-> "searchset",
                             total |-> Len(entries), entry |-> entries]]

\* get_capability_statement: one rest resource per key of the store
GetCapabilityStatement(st) ==
    [resources |-> st,
     value |-> [resourceType |-> "CapabilityStatement",
                types |-> [j \in 1..Len(st) |-> st[j].type]]]

\* the OperationOutcome of a 404
NotFound == [resourceType |-> "OperationOutcome", code |-> "not-found"]

----------------------------------------------------------------------------
(* What the server is given to load and asked to read *)

\* a resource that names a patient in its subject element
WithSubject(type, id, pid) ==
    Res(type, id) @@ [subject |-> [reference |-> PatientRef(pid)]]

\* lines of the resource files: patients inside and outside the mapping;
\* resources of each of them; one id written twice; a resource naming its
\* patient in the patient element; one with no patient link
Lines ==
    { Res("Patient", P1), Res("Patient", P3),
      WithSubject("Observation", ObsId(1), P1),
      WithSubject("Observation", ObsId(2), XP1),
      WithSubject("Observation", ObsId(3), P3),
      WithSubject("Observation", ObsId(1), XP1),
      Res("Claim", <<99, 49>>) @@ [patient |-> [reference |-> PatientRef(P1)]],
      Res("Organization", <<103, 49>>) }

\* rows of the note files: a patient of the mapping and one outside it
NoteRows == { [subject_id |-> S1], [subject_id |-> S3] }

IsLine(x) == "resourceType" \in DOMAIN x

\* the files are read first, the notes after them
FileInputs ==
    {i \in UNION {[1..n -> Lines \cup NoteRows] : n \in 0..MaxInput} :
        \A a, b \in 1..Len(i) : (a < b /\ IsLine(i[b])) => IsLine(i[a])}

\* files that hold two patients of the mapping, each followed by two lines
\* of observations, which may be the same line twice
TwoPatientInputs ==
    {<<Res("Patient", a), Res("Patient", IF a = P1 THEN XP1 ELSE P1), x, y>> :
        a \in {P1, XP1},
        x \in {WithSubject("Observation", ObsId(1), P1),
                WithSubject("Observation", ObsId(2), XP1)},
        y \in {WithSubject("Observation", ObsId(1), P1),
                WithSubject("Observation", ObsId(2), XP1)}}

Inputs == FileInputs \cup TwoPatientInputs

\* what the requests name: a type the store can hold and one it never
\* holds; an id that can be stored and one the filter rejects
QueryTypes == {"Observation", "Location"}
QueryIds == {ObsId(1), ObsId(3)}
QueryPatients == {P1, P3}
QueryParams ==
    { EmptyDict,
      [p \in {"_id"} |-> ObsId(1)],
      [p \in {"patient"} |-> P1],
      [p \in {"subject"} |-> XP1],
      [p \in {"_id", "code"} |-> IF p = "_id" THEN ObsId(2) ELSE P1] }

----------------------------------------------------------------------------
(* The server as a state machine: the load of __init__, then the requests *)

\* no timeline is being built
BuildOff ==
    /\ bundle = <<>>
    /\ patient_id = P1
    /\ pc = "off"
    /\ encounters = <<>>
    /\ encounter_order = <<>>
    /\ non_encounter_events = <<>>
    /\ patient_demographics = NoneEvent
    /\ timeline = NoTimeline

\* the constructor has read the mapping and is about to read the files
InitServer ==
    /\ valid_patient_uuids = {m.patient_uuid : m \in MappingFile}
    /\ input \in Inputs
    /\ cursor = 0
    /\ resources = <<>>
    /\ phase = "loading"
    /\ response = NoResponse
    /\ BuildOff
    /\ SingleBuild
    /\ InstanceOff

\* one line of _load_fhir_resources
LoadLine ==
    /\ phase = "loading"
    /\ cursor < Len(input)
    /\ IsLine(input[cursor + 1])
    /\ LET resource == input[cursor + 1]
       IN  resources' = IF ShouldIncludeResource(valid_patient_uuids, resource)
                        THEN StorePut(resources, resource.resourceType, resource)
                        ELSE resources
    /\ cursor' = cursor + 1
    /\ UNCHANGED <<valid_patient_uuids, input, phase, response>>
    /\ UNCHANGED <<build_vars, rebuild_vars, instance_vars>>

\* one row of _load_discharge_notes / _load_radiology_notes
LoadNote ==
    /\ phase = "loading"
    /\ cursor < Len(input)
    /\ ~IsLine(input[cursor + 1])
    /\ LET row == input[cursor + 1]
           subject_to_uuid == SubjectToUuid(valid_patient_uuids)
           k == Len(StoreGet(resources, "DocumentReference").value) + 1
       IN  resources' =
               IF row.subject_id \in DOMAIN subject_to_uuid
               THEN LET doc_ref == CreateDocumentReference(
                                       row, subject_to_uuid[row.subject_id], k)
                    IN  StorePut(resources, "DocumentReference", doc_ref)
               ELSE resources
    /\ cursor' = cursor + 1
    /\ UNCHANGED <<valid_patient_uuids, input, phase, response>>
    /\ UNCHANGED <<build_vars, rebuild_vars, instance_vars>>

\* the summary of load_data, which indexes self.resources['Patient']
FinishLoad ==
    /\ phase = "loading"
    /\ cursor = Len(input)
    /\ resources' = Touch(resources, "Patient")
    /\ phase' = "serving"
    /\ UNCHANGED <<valid_patient_uuids, input, cursor, response>>
    /\ UNCHANGED <<build_vars, rebuild_vars, instance_vars>>

\* GET /fhir/<resource_type>/<resource_id>
ReadResource ==
    /\ phase = "serving"
    /\ \E t \in QueryTypes, id \in QueryIds :
          LET g == GetResource(resources, t, id)
          IN  /\ resources' = g.resources
              /\ response' = [op |-> "read", type |-> t, id |-> id,
                              status |-> IF g.value # NoResource THEN 200 ELSE 404,
                              body |-> IF g.value # NoResource THEN g.value ELSE NotFound]
    /\ UNCHANGED <<valid_patient_uuids, input, cursor, phase>>
    /\ UNCHANGED <<build_vars, rebuild_vars, instance_vars>>

\* GET /fhir/<resource_type>
SearchRequest ==
    /\ phase = "serving"
    /\ \E t \in QueryTypes, params \in QueryParams :
          LET g == SearchResources(StoreGet(resources, t).resources, t, params)
          IN  /\ resources' = g.resources
              /\ response' = [op |-> "search", type |-> t, params |-> params,
                              status |-> 200,
                              body |-> [resourceType |-> "Bundle", type |-> "searchset",
                                        total |-> Len(g.value),
                                        entry |-> [k \in 1..Len(g.value) |->
                                                      BundleEntry(t, g.value[k])]]]
    /\ UNCHANGED <<valid_patient_uuids, input, cursor, phase>>
    /\ UNCHANGED <<build_vars, rebuild_vars, instance_vars>>

\* GET /fhir/Patient/<patient_id>/$everything
PatientEverything ==
    /\ phase = "serving"
    /\ \E pid \in QueryPatients :
          LET g == GetPatientEverything(resources, pid)
          IN  /\ resources' = g.resources
              /\ response' = [op |-> "everything", id |-> pid,
                              status |-> IF g.value # NoResource THEN 200 ELSE 404,
                              body |-> IF g.value # NoResource THEN g.value ELSE NotFound]
    /\ UNCHANGED <<valid_patient_uuids, input, cursor, phase>>
    /\ UNCHANGED <<build_vars, rebuild_vars, instance_vars>>

\* GET /fhir/metadata
CapabilityStatement ==
    /\ phase = "serving"
    /\ LET g == GetCapabilityStatement(resources)
       IN  /\ resources' = g.resources
           /\ response' = [op |-> "metadata", status |-> 200, body |-> g.value]
    /\ UNCHANGED <<valid_patient_uuids, input, cursor, phase>>
    /\ UNCHANGED <<build_vars, rebuild_vars, instance_vars>>

NextServer ==
    \/ LoadLine \/ LoadNote \/ FinishLoad
    \/ ReadResource \/ SearchRequest \/ PatientEverything \/ CapabilityStatement

SpecServer == InitServer /\ [][NextServer]_vars

----------------------------------------------------------------------------
(* Reading the store and the replies *)

\* a resource of type t is stored under id
Stored(st, t, id) ==
    \E j \in 1..Len(st) :
        st[j].type = t /\ \E k \in 1..Len(st[j].items) : st[j].items[k].id = id

\* the last reply answers a request of this kind
Answered(op) == "op" \in DOMAIN response /\ response.op = op

\* the lines read so far
LinesRead == {input[i] : i \in {j \in 1..cursor : IsLine(input[j])}}

\* C11: a $everything request is answered 404 with a not-found
\* OperationOutcome exactly when no Patient is stored under the id it names,
\* and in that case the request leaves the store as it was.
C11_NotFoundIffNoPatient ==
    [][(phase = "serving" /\ "op" \in DOMAIN response' /\ response'.op = "everything")
         => LET absent == ~Stored(resources, "Patient", response'.id)
            IN  /\ (response'.status = 404 /\ response'.body = NotFound) <=> absent
                /\ response'.status = 200 <=> ~absent
                /\ absent => resources' = resources]_vars

\* Patient P3, filtered out at load, is asked for beside a stored Patient P1
C11_Witness ==
    /\ Answered("everything")
    /\ response.id = P3
    /\ response.status = 404
    /\ Res("Patient", P3) \in LinesRead
    /\ Stored(resources, "Patient", P1)

\* the resources of the types st[j..] in the order the store iterates them:
\* types by first insertion, ids by first insertion within a type
RECURSIVE StoreOrder(_, _)
StoreOrder(st, j) ==
    IF j > Len(st) THEN <<>> ELSE st[j].items \o StoreOrder(st, j + 1)

NamesPatientExactly(r, f, pid) ==
    /\ f \in DOMAIN r
    /\ "reference" \in DOMAIN r[f]
    /\ r[f].reference = StrPatientSlash \o pid

\* the resources of the bundle of the last reply, the Patient left out
BundleOthers == {response.body.entry[k].resource : k \in 2..Len(response.body.entry)}

\* the stored resources of every type but Patient
StoredOthers ==
    {x \in {StoreOrder(resources, 1)[k] : k \in 1..Len(StoreOrder(resources, 1))} :
        x.resourceType # "Patient"}

\* C13: _resource_references_patient accepts a resource exactly when its
\* subject.reference or its patient.reference equals "Patient/<patientId>";
\* a reference that merely ends with the id, or no reference, is refused.
\* So a stored resource is in the bundle of $everything exactly when one of
\* the two references is that string.
C13_ExactReference ==
    /\ \A r \in Lines, pid \in QueryPatients \cup {XP1} :
          ResourceReferencesPatient(r, pid)
              <=> (NamesPatientExactly(r, "subject", pid)
                      \/ NamesPatientExactly(r, "patient", pid))
    /\ (Answered("everything") /\ response.status = 200) =>
          \A r \in StoredOthers :
              r \in BundleOthers
                  <=> (NamesPatientExactly(r, "subject", response.id)
                          \/ NamesPatientExactly(r, "patient", response.id))

\* the bundle of P1 holds the Claim naming P1 in its patient element and
\* leaves out the stored Observation of XP1, whose reference ends with "P1"
C13_Witness ==
    /\ Answered("everything")
    /\ response.status = 200
    /\ response.id = P1
    /\ \E r \in BundleOthers : r.resourceType = "Claim"
    /\ \E r \in StoredOthers :
          /\ EndsWith(SubjectReference(r), P1)
          /\ SubjectReference(r) # PatientRef(P1)
          /\ r \notin BundleOthers

\* the name of a resource type as characters
TypeChars(t) ==
    CASE t = "Observation" -> <<79, 98, 115, 101, 114, 118, 97, 116, 105, 111, 110>>
      [] t = "Location" -> <<76, 111, 99, 97, 116, 105, 111, 110>>

\* the resources of type t in the order the store iterates them
StoredOfType(t) ==
    SelectSeq(StoreOrder(resources, 1), LAMBDA r : r.resourceType = t)

\* r satisfies every parameter: _id names its id; patient or subject gives a
\* value such that its subject reference is "<type>/<value>" or ends with it
SatisfiesParams(r, t, params) ==
    \A p \in DOMAIN params :
        /\ p = "_id" => r.id = params[p]
        /\ p \in {"patient", "subject"} =>
              LET ref == IF "subject" \in DOMAIN r /\ "reference" \in DOMAIN r.subject
                         THEN r.subject.reference ELSE <<>>
                  n == Len(params[p])
              IN  \/ ref = TypeChars(t) \o <<47>> \o params[p]
                  \/ /\ Len(ref) >= n
                     /\ \A i \in 1..n : ref[Len(ref) - n + i] = params[p][i]

\* C14: a search returns, in the iteration order of the store, exactly the
\* stored resources of the type that satisfy every parameter.
C14_SearchResult ==
    Answered("search") =>
        /\ [k \in 1..Len(response.body.entry) |-> response.body.entry[k].resource]
              = SelectSeq(StoredOfType(response.type),
                          LAMBDA r : SatisfiesParams(r, response.type, response.params))
        /\ response.body.total = Len(response.body.entry)

\* a search of Observation by patient = P1 returns the Observation of XP1,
\* stored first and matched by its suffix, and then the Observation of P1
C14_Witness ==
    /\ Answered("search")
    /\ response.type = "Observation"
    /\ response.params = [p \in {"patient"} |-> P1]
    /\ Len(response.body.entry) = 2
    /\ response.body.entry[1].resource.subject.reference = PatientRef(XP1)
    /\ response.body.entry[2].resource.subject.reference = PatientRef(P1)

\* C15: once the store is built, no read operation changes it: no resource
\* and no resource-type key is added, removed or modified, whatever type or
\* id the request names.
C15_ReadsLeaveStore ==
    [][phase = "serving" => resources' = resources]_vars

\* a read and a search of the type Location, which the store does not hold,
\* have been answered and the store still has no such key
C15_Witness ==
    /\ phase = "serving"
    /\ "op" \in DOMAIN response /\ response.op \in {"read", "search"}
    /\ response.type = "Location"
    /\ response.status \in {200, 404}
    /\ ~HasType(resources, "Location")
    /\ Len(resources) >= 2

----------------------------------------------------------------------------
(* The process-wide server instance.  Thread 0 is the main thread, which   *)
(* calls init_server before it starts the application; threads 1.. are    *)
(* request threads, each calling get_fhir_server once.  An instance is     *)
(* named by the number of the construction that made it; 0 is None.        *)

\* request threads of the application
MaxThreads == 3

Threads == 0..MaxThreads

\* the ways the process is started: main() calls init_server and then runs
\* the application; the module is imported by an application server with
\* the MIMIC_* environment variables set; or imported with none of them
Starts == {"main", "imported", "imported_bare"}

InitInstance ==
    /\ \E start \in Starts :
          /\ server_config = (start = "imported")
          /\ tpc = [t \in Threads |->
                      IF t = 0 THEN (IF start = "main" THEN "init" ELSE "absent")
                      ELSE "check"]
    /\ fhir_server = 0
    /\ made = [t \in Threads |-> 0]
    /\ obtained = [t \in Threads |-> 0]
    /\ constructed = 0
    /\ BuildOff
    /\ SingleBuild
    /\ ServerOff

\* init_server: the environment and _server_config are set
InitServerConfig ==
    /\ tpc[0] = "init"
    /\ server_config' = TRUE
    /\ tpc' = [tpc EXCEPT ![0] = "check"]
    /\ UNCHANGED <<fhir_server, made, obtained, constructed>>
    /\ UNCHANGED <<build_vars, rebuild_vars, server_vars>>

\* if fhir_server is None: (and, in get_fhir_server, the test of the config)
CheckInstance(t) ==
    /\ tpc[t] = "check"
    /\ t # 0 => tpc[0] \in {"done", "absent"}
    /\ tpc' = [tpc EXCEPT ![t] =
                  IF fhir_server = 0 /\ server_config THEN "construct"
                  ELSE IF t = 0 THEN "done" ELSE "return"]
    /\ UNCHANGED <<fhir_server, server_config, made, obtained, constructed>>
    /\ UNCHANGED <<build_vars, rebuild_vars, server_vars>>

\* MimicFhirServer(...): the store is loaded
ConstructInstance(t) ==
    /\ tpc[t] = "construct"
    /\ constructed' = constructed + 1
    /\ made' = [made EXCEPT ![t] = constructed + 1]
    /\ tpc' = [tpc EXCEPT ![t] = "assign"]
    /\ UNCHANGED <<fhir_server, server_config, obtained>>
    /\ UNCHANGED <<build_vars, rebuild_vars, server_vars>>

\* fhir_server = <the new instance>
AssignInstance(t) ==
    /\ tpc[t] = "assign"
    /\ fhir_server' = made[t]
    /\ tpc' = [tpc EXCEPT ![t] = IF t = 0 THEN "done" ELSE "return"]
    /\ UNCHANGED <<server_config, made, obtained, constructed>>
    /\ UNCHANGED <<build_vars, rebuild_vars, server_vars>>

\* return fhir_server
ReturnInstance(t) ==
    /\ tpc[t] = "return"
    /\ obtained' = [obtained EXCEPT ![t] = fhir_server]
    /\ tpc' = [tpc EXCEPT ![t] = "done"]
    /\ UNCHANGED <<fhir_server, server_config, made, constructed>>
    /\ UNCHANGED <<build_vars, rebuild_vars, server_vars>>

NextInstance ==
    \/ InitServerConfig
    \/ \E t \in Threads :
          \/ CheckInstance(t)
          \/ ConstructInstance(t)
          \/ AssignInstance(t)
          \/ ReturnInstance(t)

SpecInstance == InitInstance /\ [][NextInstance]_vars

\* C16: whatever the interleaving of the calls of get_fhir_server (and of
\* init_server), the server is constructed at most once in the process and
\* every caller that has returned holds the same instance.
C16_ConstructedOnce ==
    /\ constructed <= 1
    /\ \A t, u \in 1..MaxThreads :
          (tpc[t] = "done" /\ tpc[u] = "done") => obtained[t] = obtained[u]

----------------------------------------------------------------------------
(* The build called twice with the same arguments *)

\* what a call gave its caller: a timeline, or an exception
Outcome == [pc |-> pc, timeline |-> timeline]

\* the first call is over; the caller keeps what it gave and calls again with
\* the same bundle and patient id.  The locals of the new call hold nothing
\* the code reads before it assigns them.
Rebuild ==
    /\ run = 1
    /\ pc \in {"done", "raised"}
    /\ first_timeline' = Outcome
    /\ run' = 2
    /\ pc' = "pass1"
    /\ timeline' = NoTimeline
    /\ UNCHANGED <<bundle, patient_id, encounters, encounter_order,
                   non_encounter_events, patient_demographics, other>>
    /\ UNCHANGED <<server_vars, instance_vars>>

NextTwice == Pass1 \/ Pass2 \/ Pass3 \/ Pass4 \/ Finalize \/ Rebuild

SpecTwice == Init /\ [][NextTwice]_vars

----------------------------------------------------------------------------
(* Two builds running at the same time, as on two request threads.  The    *)
(* first keeps its arguments and locals in the variables of the build, the *)
(* second in the record other; a thread switch can fall between any two    *)
(* passes.                                                                 *)

\* the frame of a call at its entry
EntryFrame(b) ==
    [bundle |-> b, pc |-> "pass1", encounters |-> <<>>, encounter_order |-> <<>>,
     non_encounter_events |-> <<>>, patient_demographics |-> NoneEvent,
     timeline |-> NoTimeline]

\* the next pass of the call whose frame is l; entry_encounters and
\* entry_pending are what the first two passes start from
RunStep(l, pid, entry_encounters, entry_pending) ==
    CASE l.pc = "pass1" ->
            IF \E i \in 1..Len(l.bundle) :
                  l.bundle[i].resourceType = "Encounter"
                      /\ EncounterTypeRaises(l.bundle[i])
            THEN [l EXCEPT !.pc = "raised"]
            ELSE LET st == DiscoverEncounters(l.bundle, 1, entry_encounters)
                 IN  [l EXCEPT !.encounters = st.encounters,
                               !.encounter_order =
                                   SortEncounterOrder(st.encounters, st.encounter_order),
                               !.pc = "pass2"]
      [] l.pc = "pass2" ->
            IF \E i \in 1..Len(l.bundle) : ExtractRaises(l.bundle[i])
            THEN [l EXCEPT !.pc = "raised"]
            ELSE LET st == AttributeEntries(l.bundle, 1,
                               [encounters |-> l.encounters,
                                non_encounter_events |-> entry_pending,
                                patient_demographics |-> NoneEvent])
                 IN  [l EXCEPT !.encounters = st.encounters,
                               !.non_encounter_events = st.non_encounter_events,
                               !.patient_demographics = st.patient_demographics,
                               !.pc = "pass3"]
      [] l.pc = "pass3" ->
            LET st == ReconcileEvents(l.non_encounter_events,
                          [encounters |-> l.encounters, remaining |-> <<>>])
            IN  [l EXCEPT !.encounters = st.encounters,
                          !.non_encounter_events = st.remaining,
                          !.pc = "pass4"]
      [] l.pc = "pass4" ->
            [l EXCEPT !.encounters = [j \in 1..Len(@) |-> SortAndSplit(@[j])],
                      !.non_encounter_events = SortEvents(@),
                      !.pc = "finalize"]
      [] l.pc = "finalize" ->
            [l EXCEPT !.timeline = BuildTimeline(pid, l.encounters, l.encounter_order,
                                       l.non_encounter_events, l.patient_demographics),
                      !.pc = "done"]

\* bundles of the concurrent builds: encounter E1 with one more resource,
\* and a bundle that makes the build raise
ConcurrentBundles ==
    {b \in OrderBundles :
        /\ Len(b) = 2
        /\ b[1] = Res("Encounter", E1) @@ [period |-> [start |-> DA, end |-> DA]]}
    \cup {<<Res("Condition", R1) @@ [onsetDateTime |-> DB] @@ [code |-> [coding |-> <<>>]]>>}

InitConcurrent ==
    /\ bundle \in ConcurrentBundles
    /\ patient_id \in PatientIds
    /\ BuildEntry
    /\ run = 1
    /\ first_timeline = NoTimeline
    /\ other \in {EntryFrame(b) : b \in ConcurrentBundles}
    /\ ServerOff
    /\ InstanceOff

\* one pass of the second build
OtherStep ==
    /\ other.pc \notin {"done", "raised"}
    /\ other' = RunStep(other, patient_id, EntryEncounters, EntryPending)
    /\ UNCHANGED <<run, first_timeline>>
    /\ UNCHANGED <<build_vars, server_vars, instance_vars>>

NextConcurrent == Pass1 \/ Pass2 \/ Pass3 \/ Pass4 \/ Finalize \/ OtherStep

SpecConcurrent == InitConcurrent /\ [][NextConcurrent]_vars

\* the frame a build of bundle b ends with when nothing runs beside it
RECURSIVE RunAlone(_, _)
RunAlone(l, pid) ==
    IF l.pc \in {"done", "raised"} THEN l
    ELSE RunAlone(RunStep(l, pid, [encounters |-> <<>>, encounter_order |-> <<>>], <<>>),
                  pid)

----------------------------------------------------------------------------
(* The filter of the load *)

\* every resource the store holds
AllStored == {StoreOrder(resources, 1)[k] : k \in 1..Len(StoreOrder(resources, 1))}

----------------------------------------------------------------------------
(* Search and assembly on one store *)

\* the last reply is the bundle of a $everything request
EverythingAnswered == Answered("everything") /\ response.status = 200

\* what search_resources(T, {patient: p}) returns on the store
SearchByPatient(t, pid) ==
    LET found == SearchResources(resources, t, [x \in {"patient"} |-> pid]).value
    IN  {found[m] : m \in 1..Len(found)}

\* C28 as stated: every resource of a type other than Patient in the bundle
\* of get_patient_everything(p) is returned by the search of its type with
\* {patient: p} on the same store.
C28_Original ==
    EverythingAnswered =>
        \A r \in BundleOthers :
            r \in SearchByPatient(r.resourceType, response.id)

\* C28 (amended): every resource in the bundle of get_patient_everything(p)
\* that names p in its subject reference is returned by the search of its
\* type with {patient: p}; a resource of the bundle whose subject reference
\* is empty, which names p in its patient element only, is not returned.
C28_SearchFindsSubjects ==
    EverythingAnswered =>
        \A r \in BundleOthers :
            /\ SubjectReference(r) = PatientRef(response.id) =>
                  r \in SearchByPatient(r.resourceType, response.id)
            /\ SubjectReference(r) = <<>> =>
                  r \notin SearchByPatient(r.resourceType, response.id)

\* the bundle of P1 holds an Observation whose subject is P1, which the
\* search returns, and a Claim whose patient is P1, which it does not
C28_Witness ==
    /\ EverythingAnswered
    /\ \E r, c \in BundleOthers :
          /\ SubjectReference(r) = PatientRef(response.id)
          /\ r \in SearchByPatient(r.resourceType, response.id)
          /\ PatientReference(c) = PatientRef(response.id)
          /\ SubjectReference(c) = <<>>
          /\ c \notin SearchByPatient(c.resourceType, response.id)

\* C29: the bundle of a $everything request holds exactly one resource of
\* type Patient, the requested one, in its first entry; it holds no resource
\* twice; and its total is the number of its entries.
C29_OnePatientNoDuplicates ==
    EverythingAnswered =>
        LET entry == response.body.entry
        IN  /\ Len(entry) >= 1
            /\ entry[1].resource.resourceType = "Patient"
            /\ entry[1].resource.id = response.id
            /\ \A k \in 2..Len(entry) : entry[k].resource.resourceType # "Patient"
            /\ \A j, k \in 1..Len(entry) :
                  j < k =>
                      /\ entry[j] # entry[k]
                      /\ ~(/\ entry[j].resource.resourceType = entry[k].resource.resourceType
                            /\ entry[j].resource.id = entry[k].resource.id)
            /\ response.body.total = Len(entry)

\* the store holds two patients and the files held one observation of the
\* requested patient on two lines: the bundle has the patient and the
\* observation, once each
C29_Witness ==
    /\ EverythingAnswered
    /\ Stored(resources, "Patient", P1)
    /\ Stored(resources, "Patient", XP1)
    /\ Len(response.body.entry) = 2
    /\ \E a, b \in 1..cursor :
          /\ a < b
          /\ input[a] = input[b]
          /\ input[a] = response.body.entry[2].resource

====
